---------------------------- MODULE Spec2Model ----------------------------
(***************************************************************************)
(* A model of the bright package: Camera, Frame, Mesh, the mesh Renderer   *)
(* and the render() driver, together with the part of the OpenGL state     *)
(* machine these classes drive (framebuffer / texture / program / vertex   *)
(* array bindings, blend and depth toggles, viewport, uniforms and the     *)
(* contents of the render targets).                                        *)
(*                                                                         *)
(* Pixel data is symbolic: the content of a render target is the clear     *)
(* that last reset it followed by the draws issued on it since, each draw  *)
(* carrying every piece of GL state the rasteriser reads.  Two targets     *)
(* with the same symbolic content hold the same pixels.                    *)
(***************************************************************************)
EXTENDS Integers, Sequences, FiniteSets, TLC

VARIABLES
    cameras,    \* the Camera objects constructed so far
    meshes,     \* the Mesh objects constructed so far
    renderers,  \* the bright.mesh.Renderer objects constructed so far
    gl,         \* the state of the (single, process wide) OpenGL context
    driver,     \* the activation record of bright.render(), when one runs
    lastOp      \* the last call made by the caller, with its outcome

vars == <<cameras, meshes, renderers, gl, driver, lastOp>>

---------------------------------------------------------------------------
(* Bounds of the model.                                                    *)

MaxCameras == 1
MaxVecLen == 2
MaxDim == 2
MaxVertices == 2
MaxFaces == 2
MaxMeshes == 2
SceneMeshes == 1
MaxMeshList == 1
MaxRenderers == 2
MaxStop == 2

---------------------------------------------------------------------------
(* Python values handed to the constructors and setters.                   *)

Vec(items) == [kind |-> "seq", items |-> items]
Num(n) == [kind |-> "num", items |-> <<n>>]
Str == [kind |-> "str", items |-> <<>>]

ZeroVec(n) == [i \in 1..n |-> 0]

\* What a caller may pass as a location or a target: sequences of 2 to
\* MaxVecLen numbers, a scalar, and a string that is no number.
VectorInputs ==
    {Vec(ZeroVec(n)) : n \in 2..MaxVecLen} \cup {Vec(<<0, 0, 1>>), Num(5), Str}

\* What a caller may pass as a width or a height.
DimInputs == {Num(n) : n \in (0 - 1)..MaxDim} \cup {Str}

Raised(r) == r.error # "none"

---------------------------------------------------------------------------
(* numpy conversions.                                                      *)

\* np.array(value, dtype='f4'): a sequence of numbers becomes an array of
\* shape (n,), a scalar an array of shape (), a string that is no number
\* raises ValueError.
AsFloatArray(value) ==
    CASE value.kind = "seq" ->
            [error |-> "none", shape |-> <<Len(value.items)>>, data |-> value.items]
      [] value.kind = "num" ->
            [error |-> "none", shape |-> <<>>, data |-> value.items]
      [] OTHER ->
            [error |-> "ValueError", shape |-> <<>>, data |-> <<>>]

\* max(1, value) followed by np.uint32(...): comparing 1 with a string
\* raises TypeError; a number below 1 becomes 1.  The numbers asked for are
\* small integers, which np.uint32 holds as they are.
ClampDimension(value) ==
    IF value.kind # "num"
    THEN [error |-> "TypeError", value |-> 0]
    ELSE [error |-> "none",
          value |-> IF value.items[1] < 1 THEN 1 ELSE value.items[1]]

---------------------------------------------------------------------------
(* Camera (core.py).                                                       *)

NoArray == [shape |-> <<>>, data |-> <<>>]

\* The body of the location and target setters: the converted value, or
\* TypeError with the stored value kept.
SetterStoreMutant(old, value) ==
    LET a == AsFloatArray(value)
    IN  IF Raised(a)
        THEN [error |-> "TypeError", stored |-> NoArray]
        ELSE [error |-> "none", stored |-> [shape |-> a.shape, data |-> a.data]]

SetterStore(old, value) ==
    LET a == AsFloatArray(value)
    IN  IF Raised(a)
        THEN [error |-> "TypeError", stored |-> old]
        ELSE [error |-> "none", stored |-> [shape |-> a.shape, data |-> a.data]]

\* Camera.__init__ up to the first exception: height, width, location,
\* target, in that order.
CameraNewMutant(location, target, width, height) ==
    LET h == ClampDimension(height)
        w == ClampDimension(width)
        l == SetterStore(NoArray, location)
        t == SetterStore(NoArray, target)
    IN  IF Raised(h) \/ Raised(w) \/ Raised(l) \/ Raised(t)
        THEN [error |-> "TypeError", camera |-> <<>>]
        ELSE [error |-> "none",
              camera |-> <<[location |-> l.stored, target |-> t.stored,
                            width |-> width.items[1], height |-> h.value,
                            up |-> <<0, 1, 0>>, fov |-> 45,
                            clip |-> <<1, 1000000000>>]>>]

CameraNew(location, target, width, height) ==
    LET h == ClampDimension(height)
        w == ClampDimension(width)
        l == SetterStore(NoArray, location)
        t == SetterStore(NoArray, target)
    IN  IF Raised(h) \/ Raised(w) \/ Raised(l) \/ Raised(t)
        THEN [error |-> "TypeError", camera |-> <<>>]
        ELSE [error |-> "none",
              camera |-> <<[location |-> l.stored, target |-> t.stored,
                            width |-> w.value, height |-> h.value,
                            up |-> <<0, 1, 0>>, fov |-> 45,
                            clip |-> <<1, 1000000000>>]>>]

\* What the caller has in hand after a call: the exception raised or the
\* value returned.  A call that returns nothing leaves Done.
Op(op, id, error, args) == [op |-> op, id |-> id, error |-> error, args |-> args]
Done == Op("done", 0, "none", <<>>)

Idle == driver.pc = "idle"

CameraInit(location, target, width, height) ==
    /\ Idle
    /\ Len(cameras) < MaxCameras
    /\ LET r == CameraNew(location, target, width, height)
       IN  /\ cameras' = cameras \o r.camera
           /\ lastOp' = Op("Camera", Len(cameras) + 1, r.error,
                           IF Raised(r) THEN <<>> ELSE <<width, height>>)
    /\ UNCHANGED <<meshes, renderers, gl, driver>>

\* The renderers; when camera c did change, those that use it have not
\* rendered since (their count of renders since the last change is 0).
Touched(c, did) ==
    [r \in DOMAIN renderers |->
        IF did /\ renderers[r]._camera = c
        THEN [renderers[r] EXCEPT !.unchanged = 0]
        ELSE renderers[r]]

CameraSetLocation(c, value) ==
    /\ Idle
    /\ c \in DOMAIN cameras
    /\ LET r == SetterStore(cameras[c].location, value)
       IN  /\ cameras' = [cameras EXCEPT ![c].location = r.stored]
           /\ renderers' = Touched(c, r.stored # cameras[c].location)
           /\ lastOp' = IF Raised(r) THEN Op("location", c, r.error, <<value>>) ELSE Done
    /\ UNCHANGED <<meshes, gl, driver>>

CameraSetTarget(c, value) ==
    /\ Idle
    /\ c \in DOMAIN cameras
    /\ LET r == SetterStore(cameras[c].target, value)
       IN  /\ cameras' = [cameras EXCEPT ![c].target = r.stored]
           /\ renderers' = Touched(c, r.stored # cameras[c].target)
           /\ lastOp' = IF Raised(r) THEN Op("target", c, r.error, <<value>>) ELSE Done
    /\ UNCHANGED <<meshes, gl, driver>>

---------------------------------------------------------------------------
(* The OpenGL context.  Every function takes the context and returns it    *)
(* changed.  Object names are handed out in sequence (the n-th generated   *)
(* framebuffer is n), 0 is the default framebuffer of the hidden window.   *)

\* Content nobody has written yet (a texture allocated with no data, the
\* window's buffers): an unknown of its own for texture k, for the window 0.
Undefined(k) == [base |-> [cleared |-> FALSE, color |-> <<k>>], draws |-> <<>>]
NoDepthTest == [base |-> [cleared |-> FALSE, color |-> <<>>], draws |-> <<>>]
UnsetMatrix == [kind |-> "unset", args |-> <<>>]

glGenFramebuffers(g) ==
    [g EXCEPT !.framebuffers = Append(@, [color |-> 0, depth |-> 0])]

glBindFramebuffer(g, handle) == [g EXCEPT !.fb = handle]

glGenTextures(g) ==
    [g EXCEPT !.textures = Append(@, [width |-> 0, height |-> 0,
                                      data |-> Undefined(Len(g.textures) + 1)])]

glBindTexture(g, texture) == [g EXCEPT !.tex = texture]

\* glTexImage2D(..., width, height, ..., None): storage for the bound
\* texture, its content left undefined.
glTexImage2D(g, width, height) ==
    [g EXCEPT !.textures[g.tex].width = width,
              !.textures[g.tex].height = height]

\* glFramebufferTexture2D on the bound framebuffer.
glFramebufferTexture2D(g, attachment, texture) ==
    IF g.fb = 0 THEN g
    ELSE IF attachment = "color"
         THEN [g EXCEPT !.framebuffers[g.fb].color = texture]
         ELSE [g EXCEPT !.framebuffers[g.fb].depth = texture]

\* The color and depth content of the framebuffer that is bound now.
ColorData(g) ==
    IF g.fb = 0 THEN g.window.color
    ELSE g.textures[g.framebuffers[g.fb].color].data

DepthData(g) ==
    IF g.fb = 0 THEN g.window.depth
    ELSE g.textures[g.framebuffers[g.fb].depth].data

WithTarget(g, color, depth) ==
    IF g.fb = 0
    THEN [g EXCEPT !.window = [color |-> color, depth |-> depth]]
    ELSE [g EXCEPT !.textures[g.framebuffers[g.fb].color].data = color,
                   !.textures[g.framebuffers[g.fb].depth].data = depth]

glClearColor(g, color) == [g EXCEPT !.clearColor = color]

\* glClear(GL_COLOR_BUFFER_BIT | GL_DEPTH_BUFFER_BIT) on the bound
\* framebuffer.
glClear(g) ==
    WithTarget(g,
               [base |-> [cleared |-> TRUE, color |-> g.clearColor], draws |-> <<>>],
               [base |-> [cleared |-> TRUE, color |-> <<1>>], draws |-> <<>>])

glUseProgram(g, program) == [g EXCEPT !.program = program]

glViewport(g, width, height) == [g EXCEPT !.viewport = <<width, height>>]

glEnable(g, cap) ==
    IF cap = "blend" THEN [g EXCEPT !.blend = TRUE] ELSE [g EXCEPT !.depth = TRUE]

glDisable(g, cap) ==
    IF cap = "blend" THEN [g EXCEPT !.blend = FALSE] ELSE [g EXCEPT !.depth = FALSE]

\* A uniform of the program in use.
glUniformMatrix4fv(g, location, matrix) ==
    IF g.program = 0 THEN g
    ELSE [g EXCEPT !.programs[g.program][location] = matrix]

glGenVertexArrays(g) ==
    [g EXCEPT !.vaos = Append(@, [vertex |-> <<>>, indices |-> 0,
                                  attributes |-> <<>>])]

glBindVertexArray(g, vao) == [g EXCEPT !.vao = vao]

\* shaders.compileProgram of the fixed vertex and fragment shaders: a new
\* program whose two uniforms are still unset.
compileProgram(g) ==
    [g EXCEPT !.programs = Append(@, [l \in {0, 1} |-> UnsetMatrix])]

\* glDrawElements(GL_TRIANGLES, count, ...) with the bound vertex array:
\* what lands in the bound framebuffer depends on the program in use and its
\* uniforms, the viewport, the blend and depth toggles and, under the depth
\* test, the depth already there.  Depth is written only under the depth
\* test.
glDrawElements(g, count) ==
    LET call == [vao |-> g.vao, count |-> count, program |-> g.program,
                 uniforms |-> IF g.program = 0 THEN <<>>
                              ELSE <<g.programs[g.program][0],
                                     g.programs[g.program][1]>>,
                 viewport |-> g.viewport, blend |-> g.blend, depth |-> g.depth,
                 blendFunc |-> g.blendFunc, depthMask |-> g.depthMask]
        seen == IF g.depth THEN DepthData(g) ELSE NoDepthTest
        color == [ColorData(g) EXCEPT
                      !.draws = Append(@, [call |-> call, over |-> <<seen>>])]
        depth == IF g.depth
                 THEN [DepthData(g) EXCEPT
                           !.draws = Append(@, [call |-> call, over |-> <<>>])]
                 ELSE DepthData(g)
    IN  WithTarget(g, color, depth)

\* glGetTexImage(GL_TEXTURE_2D, 0, GL_RGB, GL_UNSIGNED_BYTE) of the bound
\* texture: width * height * 3 bytes, bottom row first.
glGetTexImage(g) ==
    [size |-> g.textures[g.tex].width * g.textures[g.tex].height * 3,
     data |-> g.textures[g.tex].data]

---------------------------------------------------------------------------
(* Frame (core.py).                                                        *)

\* Frame.__init__: the framebuffer with its color and depth textures, both
\* allocated without data; the default framebuffer is bound again at the end.
FrameNew(g, width, height, background) ==
    LET h == ClampDimension(Num(height)).value
        w == ClampDimension(Num(width)).value
        handle == Len(g.framebuffers) + 1
        color == Len(g.textures) + 1
        depth == Len(g.textures) + 2
        g1 == glBindFramebuffer(glGenFramebuffers(g), handle)
        g2 == glTexImage2D(glBindTexture(glGenTextures(g1), color), w, h)
        g3 == glFramebufferTexture2D(g2, "color", color)
        g4 == glTexImage2D(glBindTexture(glGenTextures(g3), depth), w, h)
        g5 == glFramebufferTexture2D(g4, "depth", depth)
    IN  [gl |-> glBindFramebuffer(g5, 0),
         frame |-> [_width |-> w, _height |-> h, _background |-> background,
                    _handle |-> handle, _color |-> color, _depth |-> depth]]

\* The height and width properties.
FrameHeight(frame) == frame._height

FrameWidth(frame) == frame._height

\* Frame.bind
FrameBindMutant(g, frame) == g

FrameBind(g, frame) == glBindFramebuffer(g, frame._handle)

\* Frame.clear
FrameClearMutant(g, frame) ==
    glClearColor(FrameBind(g, frame), frame._background)

FrameClear(g, frame) ==
    glClear(glClearColor(FrameBind(g, frame), frame._background))

\* Frame.color: the RGB bytes of the color texture, reshaped to
\* (height, width, 3) and the rows reversed.  reshape raises ValueError when
\* the sizes differ.
FrameColor(g, frame) ==
    LET g1 == glBindTexture(g, frame._color)
        raw == glGetTexImage(g1)
        shape == <<FrameHeight(frame), FrameWidth(frame), 3>>
    IN  IF shape[1] * shape[2] * shape[3] # raw.size
        THEN [gl |-> g1, error |-> "ValueError", image |-> <<>>]
        ELSE [gl |-> g1, error |-> "none",
              image |-> <<[shape |-> shape, data |-> raw.data,
                           firstRow |-> "top"]>>]

---------------------------------------------------------------------------
(* Mesh (mesh.py).                                                         *)

NoColors == [given |-> FALSE, rows |-> <<>>]
Colors(n, rgba) == [given |-> TRUE, rows |-> [i \in 1..n |-> rgba]]

\* np.ones((rows, columns))
OnesMutant(rows, columns) == [i \in 1..rows |-> [j \in 1..(columns - 1) |-> 1]]

Ones(rows, columns) == [i \in 1..rows |-> [j \in 1..columns |-> 1]]

\* Mesh.__init__ for nVertices vertices and nFaces triangles.  The vertex
\* array is generated and bound before np.hstack, which raises ValueError
\* when colors has another number of rows than vertices.
MeshNew(g, nVertices, nFaces, colors) ==
    LET _colors == IF colors.given THEN colors.rows ELSE Ones(nVertices, 4)
        _vao == Len(g.vaos) + 1
        g1 == glBindVertexArray(glGenVertexArrays(g), _vao)
        vbo_data == [i \in 1..nVertices |-> <<i>> \o _colors[i]]
        g2 == [g1 EXCEPT !.vaos[_vao] =
                  [vertex |-> vbo_data, indices |-> nFaces,
                   attributes |-> <<[size |-> 3, stride |-> 12 + 16, offset |-> 0],
                                    [size |-> 4, stride |-> 12 + 16, offset |-> 12]>>]]
    IN  IF Len(_colors) # nVertices
        THEN [gl |-> g1, error |-> "ValueError", mesh |-> <<>>]
        ELSE [gl |-> g2, error |-> "none",
              mesh |-> <<[nb_vertices |-> nVertices, nb_triangles |-> nFaces,
                          _colors |-> _colors, _vao |-> _vao]>>]

\* Mesh.draw
MeshDraw(g, mesh) == glDrawElements(glBindVertexArray(g, mesh._vao), mesh.nb_triangles * 3)

MeshInit(nVertices, nFaces, colors) ==
    /\ Idle
    /\ Len(meshes) < MaxMeshes
    /\ Len(gl.vaos) < MaxMeshes + 1
    /\ LET r == MeshNew(gl, nVertices, nFaces, colors)
       IN  /\ meshes' = meshes \o r.mesh
           /\ gl' = r.gl
           /\ lastOp' = Op("Mesh", Len(meshes) + 1, r.error, <<colors.given>>)
    /\ UNCHANGED <<cameras, renderers, driver>>

---------------------------------------------------------------------------
(* Renderer (core.py, mesh.py).                                            *)

RECURSIVE Gcd(_, _)
Gcd(a, b) == IF b = 0 THEN a ELSE Gcd(b, a % b)

\* camera.width / camera.height
Aspect(width, height) ==
    <<width \div Gcd(width, height), height \div Gcd(width, height)>>

\* Camera.view: pyrr.matrix44.create_look_at(location, target, up)
CameraView(camera) ==
    [kind |-> "look_at", args |-> <<camera.location.data, camera.target.data, camera.up>>]

\* pyrr.matrix44.create_perspective_projection(fov, width / height, *clip)
Perspective(camera) ==
    [kind |-> "perspective",
     args |-> <<<<camera.fov>>, Aspect(camera.width, camera.height), camera.clip>>]

CAMERA_VIEW_MATRIX == 0
CAMERA_PERSPECTIVE_MATRIX == 1

\* Renderer.__init__ of core.py, then of mesh.py: the Frame sized to the
\* camera, the caller's mesh collection, the compiled shader program.
RendererNew(g, c, meshList, background) ==
    LET f == FrameNew(g, cameras[c].width, cameras[c].height, background)
        g1 == compileProgram(f.gl)
    IN  [gl |-> g1,
         renderer |-> [_camera |-> c, _frame |-> f.frame, meshes |-> meshList,
                       _shader |-> Len(g1.programs), unchanged |-> 0]]

\* Shader.use
ShaderUse(g, program) == glUseProgram(g, program)

RECURSIVE DrawAll(_, _)
\* for mesh in self.meshes: mesh.draw()
DrawAll(g, meshList) ==
    IF meshList = <<>> THEN g
    ELSE DrawAll(MeshDraw(g, meshes[Head(meshList)]), Tail(meshList))

\* Renderer.render of mesh.py
RendererRender(g, renderer) ==
    LET camera == cameras[renderer._camera]
        g1 == ShaderUse(g, renderer._shader)
        g2 == FrameClear(g1, renderer._frame)
        g3 == glViewport(g2, camera.width, camera.height)
        g4 == glEnable(glEnable(g3, "blend"), "depth")
        g5 == glUniformMatrix4fv(g4, CAMERA_PERSPECTIVE_MATRIX, Perspective(camera))
        g6 == glUniformMatrix4fv(g5, CAMERA_VIEW_MATRIX, CameraView(camera))
        g7 == DrawAll(g6, renderer.meshes)
    IN  glDisable(glDisable(g7, "blend"), "depth")

\* The sequences over a set, up to a length.
RECURSIVE ListsOver(_, _)
ListsOver(S, n) ==
    IF n = 0 THEN {<<>>}
    ELSE LET shorter == ListsOver(S, n - 1)
         IN  shorter \cup {Append(l, x) : l \in shorter, x \in S}

RendererInit(c, meshList, background) ==
    /\ Idle
    /\ Len(renderers) < MaxRenderers
    /\ c \in DOMAIN cameras
    /\ \A i \in DOMAIN meshList : meshList[i] \in DOMAIN meshes
    /\ LET r == RendererNew(gl, c, meshList, background)
       IN  /\ renderers' = Append(renderers, r.renderer)
           /\ gl' = r.gl
           /\ lastOp' = Done
    /\ UNCHANGED <<cameras, meshes, driver>>

\* The caller changes the mesh collection it handed to the renderer.
MeshesAssign(r, meshList) ==
    /\ Idle
    /\ r \in DOMAIN renderers
    /\ \A i \in DOMAIN meshList : meshList[i] \in DOMAIN meshes
    /\ renderers[r].meshes # meshList
    /\ renderers' = [renderers EXCEPT ![r].meshes = meshList, ![r].unchanged = 0]
    /\ lastOp' = Done
    /\ UNCHANGED <<cameras, meshes, gl, driver>>

\* renderer.render(), called by the caller.
Render(r) ==
    /\ Idle
    /\ r \in DOMAIN renderers
    /\ gl' = RendererRender(gl, renderers[r])
    /\ renderers' = [renderers EXCEPT ![r].unchanged = IF @ = 0 THEN 1 ELSE 2]
    /\ lastOp' = Done
    /\ UNCHANGED <<cameras, meshes, driver>>

\* renderer.frame.color, read by the caller.
Color(r) ==
    /\ Idle
    /\ r \in DOMAIN renderers
    /\ LET res == FrameColor(gl, renderers[r]._frame)
       IN  /\ gl' = res.gl
           /\ lastOp' = Op("color", r, res.error, res.image)
    /\ UNCHANGED <<cameras, meshes, renderers, driver>>

---------------------------------------------------------------------------
(* render(renderers, start, stop) of __init__.py, one step per renderer    *)
(* stepped and per image taken.  Nothing else runs while it does.          *)

NoDriver ==
    [pc |-> "idle", renderers |-> <<>>, start |-> 0, stop |-> 0,
     frame_number |-> 0, next |-> 0, renderer |-> 0, frames |-> <<>>,
     error |-> "none", log |-> <<>>]

\* The call: frames = [] and the first value of range(start, stop), if any.
DriverStart(list, start, stop) ==
    /\ Idle
    /\ \A i \in DOMAIN list : list[i] \in DOMAIN renderers
    /\ driver' = [NoDriver EXCEPT !.pc = IF start < stop THEN "pass" ELSE "returned",
                                  !.renderers = list, !.start = start, !.stop = stop,
                                  !.frame_number = start, !.next = 1]
    /\ UNCHANGED <<cameras, meshes, renderers, gl, lastOp>>

\* for renderer in renderers: renderer.render()
DriverRender ==
    /\ driver.pc = "pass"
    /\ driver.next <= Len(driver.renderers)
    /\ LET r == driver.renderers[driver.next]
       IN  /\ gl' = RendererRender(gl, renderers[r])
           /\ renderers' = [renderers EXCEPT ![r].unchanged = IF @ = 0 THEN 1 ELSE 2]
           /\ lastOp' = Done
           /\ driver' = [driver EXCEPT !.renderer = r, !.next = @ + 1,
                             !.log = Append(@, <<"render", driver.frame_number, r>>)]
    /\ UNCHANGED <<cameras, meshes>>

\* frames.append(renderer.frame.color), then the next value of the range.
\* renderer is the variable the inner loop left behind: unbound when the
\* collection is empty.
DriverCapture ==
    /\ driver.pc = "pass"
    /\ driver.next > Len(driver.renderers)
    /\ IF driver.renderer = 0
       THEN /\ driver' = [driver EXCEPT !.pc = "raised", !.error = "NameError"]
            /\ UNCHANGED <<gl, lastOp>>
       ELSE LET res == FrameColor(gl, renderers[driver.renderer]._frame)
            IN  /\ gl' = res.gl
                /\ lastOp' = Op("color", driver.renderer, res.error, res.image)
                /\ driver' =
                      IF Raised(res)
                      THEN [driver EXCEPT !.pc = "raised", !.error = res.error]
                      ELSE [driver EXCEPT
                               !.frames = @ \o res.image,
                               !.log = Append(@, <<"capture", driver.frame_number,
                                                   driver.renderer>>),
                               !.frame_number = @ + 1,
                               !.next = 1,
                               !.pc = IF driver.frame_number + 1 < driver.stop
                                      THEN "pass" ELSE "returned"]
    /\ UNCHANGED <<cameras, meshes, renderers>>

\* The caller has the list, or the exception, and goes on.
DriverExit ==
    /\ driver.pc \in {"returned", "raised"}
    /\ driver' = NoDriver
    /\ UNCHANGED <<cameras, meshes, renderers, gl, lastOp>>

---------------------------------------------------------------------------
(* The state after `import bright`: the hidden 1x1 window exists and its   *)
(* context is current; nothing else has been constructed.                  *)

\* _create_window(1, 1): the context's initial state, with the blend
\* function and the depth mask set once and for all.
InitialContext ==
    [fb |-> 0, tex |-> 0, vao |-> 0, program |-> 0,
     viewport |-> <<1, 1>>, blend |-> FALSE, depth |-> FALSE,
     clearColor |-> <<0, 0, 0, 0>>,
     blendFunc |-> <<"GL_SRC_ALPHA", "GL_ONE_MINUS_SRC_ALPHA">>, depthMask |-> TRUE,
     framebuffers |-> <<>>, textures |-> <<>>, programs |-> <<>>, vaos |-> <<>>,
     window |-> [color |-> Undefined(0), depth |-> Undefined(0)]]

Init ==
    /\ cameras = <<>>
    /\ meshes = <<>>
    /\ renderers = <<>>
    /\ gl = InitialContext
    /\ driver = NoDriver
    /\ lastOp = Done

NextCamera ==
    \/ \E l, t \in VectorInputs, w, h \in DimInputs : CameraInit(l, t, w, h)
    \/ \E c \in 1..MaxCameras, v \in VectorInputs : CameraSetLocation(c, v)
    \/ \E c \in 1..MaxCameras, v \in VectorInputs : CameraSetTarget(c, v)

SpecCamera == Init /\ [][NextCamera]_vars

\* Meshes alone: every number of vertices and of faces, with and without
\* colors.
ColorInputs ==
    {NoColors} \cup {Colors(n, <<1, 0, 0, 1>>) : n \in 1..MaxVertices}

NextMesh ==
    \E n \in 1..MaxVertices, f \in 1..MaxFaces, colors \in ColorInputs :
        MeshInit(n, f, colors)

SpecMesh == Init /\ [][NextMesh]_vars

\* The scene: cameras, meshes and renderers constructed, changed and
\* rendered by the caller in any order.  Locations are 3-vectors here (and a
\* string, for the setters' failure).  Every run of render(renderers, start,
\* stop) is a sequence of the Render and Color steps below.
SceneLocations == {Vec(ZeroVec(3)), Vec(<<0, 0, 1>>), Str}
SceneTargets == {Vec(ZeroVec(3)), Str}
Backgrounds == {<<1, 1, 1, 0>>, <<0, 0, 0, 0>>}
MeshLists == ListsOver(1..SceneMeshes, MaxMeshList)
RendererLists == ListsOver(1..MaxRenderers, MaxRenderers)

Next ==
    \/ \E l \in SceneLocations, t \in SceneTargets, w, h \in DimInputs :
          CameraInit(l, t, w, h)
    \/ \E c \in 1..MaxCameras, v \in SceneLocations : CameraSetLocation(c, v)
    \/ \E c \in 1..MaxCameras, v \in SceneTargets : CameraSetTarget(c, v)
    \/ Len(meshes) < SceneMeshes /\ MeshInit(MaxVertices, 1, NoColors)
    \/ \E c \in 1..MaxCameras, ms \in MeshLists, bg \in Backgrounds :
          RendererInit(c, ms, bg)
    \/ \E r \in 1..MaxRenderers, ms \in MeshLists : MeshesAssign(r, ms)
    \/ \E r \in 1..MaxRenderers : Render(r)
    \/ \E r \in 1..MaxRenderers : Color(r)

Spec == Init /\ [][Next]_vars

\* The driver over renderers that are constructed and then left alone.
NextDriver ==
    \/ \E w, h \in DimInputs :
          CameraInit(Vec(<<0, 0, 1>>), Vec(ZeroVec(3)), w, h)
    \/ Len(meshes) < SceneMeshes /\ MeshInit(MaxVertices, 1, NoColors)
    \/ \E c \in 1..MaxCameras, ms \in MeshLists, bg \in Backgrounds :
          RendererInit(c, ms, bg)
    \/ \E list \in RendererLists, start \in 0..1, stop \in 0..MaxStop :
          DriverStart(list, start, stop)
    \/ DriverRender
    \/ DriverCapture
    \/ DriverExit

SpecDriver == Init /\ [][NextDriver]_vars

---------------------------------------------------------------------------
(* Properties.                                                             *)

Finished == driver.pc \in {"returned", "raised"}

Last(list) == list[Len(list)]

\* The color content of a renderer's frame.
Content(r) == gl.textures[renderers[r]._frame._color].data

\* C1: once render(renderers, start, stop) is over, for a non-empty
\* collection and start <= stop, it has returned (not raised) and the list
\* it returned holds exactly stop - start images.
C1_ReturnsStopMinusStartImages ==
    (Finished /\ driver.renderers # <<>> /\ driver.start <= driver.stop)
        => /\ driver.pc = "returned"
           /\ Len(driver.frames) = driver.stop - driver.start

\* C2: reading the color of a frame succeeds, and the array has the shape
\* (height, width, 3) of the height and width the frame was constructed with.
C2_ColorHasShapeOfFrame ==
    lastOp.op = "color"
        => /\ lastOp.error = "none"
           /\ lastOp.args[1].shape = <<renderers[lastOp.id]._frame._height,
                                       renderers[lastOp.id]._frame._width, 3>>

\* What the driver does for the frame indices from..(stop - 1), in order:
\* every renderer of the list stepped, then the last one's image taken.
RECURSIVE Passes(_, _, _)
Passes(list, from, stop) ==
    IF from >= stop THEN <<>>
    ELSE [i \in 1..Len(list) |-> <<"render", from, list[i]>>]
            \o <<<<"capture", from, Last(list)>>>>
            \o Passes(list, from + 1, stop)

\* C3: once render(renderers, start, stop) is over for a non-empty
\* collection, it has, for each index of [start, stop) in increasing order,
\* stepped every renderer once in collection order and then taken the image
\* of the last renderer, before anything of the next index; and each image
\* of the list is the color content the last renderer's frame had then.
C3_StepsEveryRendererThenCaptures ==
    (Finished /\ driver.renderers # <<>>)
        => /\ driver.log = Passes(driver.renderers, driver.start, driver.stop)
           /\ Len(driver.frames) =
                 IF driver.start < driver.stop THEN driver.stop - driver.start ELSE 0
           /\ \A k \in DOMAIN driver.frames :
                 driver.frames[k].data = Content(Last(driver.renderers))

\* The context with other content in the two textures of r's frame.
Scrubbed(r) ==
    [gl EXCEPT !.textures[renderers[r]._frame._color].data = Undefined(0),
               !.textures[renderers[r]._frame._depth].data = Undefined(0)]

\* C4: a render() of a renderer that has rendered since its camera, its
\* mesh collection and its background last changed leaves the color content
\* of its frame as it was; and the content any render() leaves is the one it
\* would leave had the frame held something else before.
C4_RenderTwiceSameContent ==
    [][\A r \in DOMAIN renderers :
          Render(r) =>
              /\ renderers[r].unchanged >= 1 => Content(r)' = Content(r)
              /\ Content(r)' =
                    RendererRender(Scrubbed(r), renderers[r])
                        .textures[renderers[r]._frame._color].data]_vars

\* A renderer rendered at least twice since the last change, with a mesh
\* drawn over the cleared background.
C4_Witness ==
    \E r \in DOMAIN renderers :
        /\ renderers[r].unchanged = 2
        /\ Content(r).base.cleared
        /\ Content(r).draws # <<>>

\* C5: a location or target setter given a value that cannot be converted
\* signals a type error and leaves the camera (location, target, width and
\* height) as it was.
C5_FailedSetterKeepsCamera ==
    [][\A c \in DOMAIN cameras, v \in VectorInputs :
          (Raised(AsFloatArray(v)) /\ (CameraSetLocation(c, v) \/ CameraSetTarget(c, v)))
              => (lastOp'.error = "TypeError" /\ cameras' = cameras)]_vars

\* A setter has just failed on a camera that holds two vectors.
C5_Witness ==
    /\ lastOp.op \in {"location", "target"}
    /\ lastOp.error = "TypeError"
    /\ cameras[lastOp.id].location.shape = <<3>>
    /\ cameras[lastOp.id].target.shape = <<3>>

\* C6: the location and the target of every camera are vectors of exactly 3
\* floats (anything else was refused with a type error).
C6_LocationAndTargetAreThreeFloats ==
    \A c \in DOMAIN cameras :
        /\ cameras[c].location.shape = <<3>>
        /\ cameras[c].target.shape = <<3>>

\* C7: width and height of every camera are >= 1; a camera just constructed
\* has the requested width and height, those below 1 raised to 1; and no
\* step changes the width or the height of a camera.
C7_DimensionsClampedAndKept ==
    /\ [](/\ \A c \in DOMAIN cameras : cameras[c].width >= 1 /\ cameras[c].height >= 1
          /\ (lastOp.op = "Camera" /\ lastOp.error = "none")
                => /\ cameras[lastOp.id].width =
                        IF lastOp.args[1].items[1] < 1 THEN 1 ELSE lastOp.args[1].items[1]
                   /\ cameras[lastOp.id].height =
                        IF lastOp.args[2].items[1] < 1 THEN 1 ELSE lastOp.args[2].items[1])
    /\ [][\A c \in DOMAIN cameras :
             /\ cameras'[c].width = cameras[c].width
             /\ cameras'[c].height = cameras[c].height]_vars

\* A camera asked for with a width of 0 and a height of MaxDim, whose
\* renderer has rendered.
C7_Witness ==
    \E r \in DOMAIN renderers :
        /\ renderers[r].unchanged >= 1
        /\ cameras[renderers[r]._camera].width = 1
        /\ cameras[renderers[r]._camera].height = MaxDim
        /\ lastOp = Done

\* C8: a mesh constructed without colors has one row of colors per vertex,
\* each row four ones.
C8_DefaultColorsAreOnes ==
    (lastOp.op = "Mesh" /\ lastOp.args = <<FALSE>>)
        => /\ lastOp.error = "none"
           /\ Len(meshes[lastOp.id]._colors) = meshes[lastOp.id].nb_vertices
           /\ \A i \in DOMAIN meshes[lastOp.id]._colors :
                 meshes[lastOp.id]._colors[i] = <<1, 1, 1, 1>>

\* The second mesh, of MaxVertices vertices, constructed without colors.
C8_Witness ==
    /\ lastOp.op = "Mesh" /\ lastOp.args = <<FALSE>> /\ lastOp.id = 2
    /\ meshes[2].nb_vertices = MaxVertices

\* C9: the width and the height of a renderer's frame are the width and the
\* height of its camera (which never change, see C7).
C9_FrameSizedToCamera ==
    \A r \in DOMAIN renderers :
        /\ FrameWidth(renderers[r]._frame) = cameras[renderers[r]._camera].width
        /\ FrameHeight(renderers[r]._frame) = cameras[renderers[r]._camera].height

\* C10: render() of a renderer leaves every texture but the two of its own
\* frame, and the window, as they were, and its own frame holds its
\* background and one draw per mesh of its collection, in order: the clear
\* and the draws went to its own framebuffer.
C10_RenderWritesOwnFrameOnly ==
    [][\A r \in DOMAIN renderers :
          Render(r) =>
              /\ \A t \in DOMAIN gl.textures :
                    t \notin {renderers[r]._frame._color, renderers[r]._frame._depth}
                        => gl'.textures[t] = gl.textures[t]
              /\ gl'.window = gl.window
              /\ Content(r)'.base =
                    [cleared |-> TRUE, color |-> renderers[r]._frame._background]
              /\ Len(Content(r)'.draws) = Len(renderers[r].meshes)
              /\ \A i \in DOMAIN renderers[r].meshes :
                    Content(r)'.draws[i].call.vao = meshes[renderers[r].meshes[i]]._vao]_vars

\* Two renderers that both rendered a mesh, the first after the second, a
\* frame having been constructed (the second renderer's) after none or some
\* of it.
C10_Witness ==
    /\ Len(renderers) = 2
    /\ \A r \in {1, 2} : Content(r).base.cleared /\ Content(r).draws # <<>>
    /\ Content(1) # Content(2)
    /\ gl.fb = renderers[1]._frame._handle

===========================================================================
